---- MODULE Spec2Model ----
(***************************************************************************)
(* Variational-Bayes LDA (src/src/lda/vb.py, class VariationalBayes).      *)
(*                                                                         *)
(* Reals are fixed-point integers: alpha, gamma and the phi-table hold     *)
(* X standing for X / Unit.  beta is kept in log space as the code keeps   *)
(* it, with base-2 integer logarithms.  Topics are 1..K, documents 1..D    *)
(* (the code's rows 0..D-1), term identifiers are the code's 0..V-1.       *)
(* The values the code obtains through scipy.special (gammaln for the      *)
(* ELBO, psi/polygamma for the Newton direction) are inputs of the step    *)
(* that computes them, drawn from bounded sets.                            *)
(***************************************************************************)
EXTENDS Integers, Sequences, FiniteSets, TLC

\* ---------------------------------------------------------------- bounds
Unit == 4           \* fixed-point resolution: X stands for X / Unit
MaxStep == 2        \* largest magnitude of a Newton direction component
MaxLikelihood == 1  \* largest magnitude of an ELBO value
MaxIterationArg == 0 \* largest iteration argument passed to learning
MaxLearnArg == 3    \* the same, in the runs of LearnSpec

\* ------------------------------------------- constructor arguments (22-30)
maximum_iteration == 2
alpha_maximum_decay == 2
alpha_maximum_iteration == 2
gamma_maximum_iteration == 2
\* alpha_update_decay_factor = 0.9 = DecayNum / DecayDen
DecayNum == 9
DecayDen == 10
\* thresholds 0.000001, 0.000001, 0.00001 as 1 / ...Inv
gamma_converge_threshold_Inv == 1000000
alpha_converge_threshold_Inv == 1000000
converge_threshold_Inv == 100000

\* ------------------------------------------------------------- arithmetic
Abs(x) == IF x < 0 THEN -x ELSE x

RECURSIVE Pow(_, _)
Pow(b, n) == IF n = 0 THEN 1 ELSE b * Pow(b, n - 1)

RECURSIVE Log2Floor(_)
Log2Floor(n) == IF n <= 1 THEN 0 ELSE 1 + Log2Floor(n \div 2)

CeilDiv(a, b) == (a + b - 1) \div b

\* truncation toward zero, as a float product rounds symmetrically
TruncDiv(a, b) == IF a >= 0 THEN a \div b ELSE -((-a) \div b)

RECURSIVE SumOver(_, _)
SumOver(f, S) ==
    IF S = {} THEN 0
    ELSE LET x == CHOOSE y \in S : TRUE IN f[x] + SumOver(f, S \ {x})

Sum(f) == SumOver(f, DOMAIN f)

Min(S) == CHOOSE x \in S : \A y \in S : x <= y

\* numpy.log of a positive fixed-point value, base 2
log(X) == Log2Floor(X) - Log2Floor(Unit)

\* scipy.special.psi of a fixed-point value (psi(x) ~ log x, clamped at the
\* resolution below it)
psi(X) == log(IF X >= 1 THEN X ELSE 1)

\* ------------------------------------------------------------------ state
VARIABLES
    pc,             \* position: "new", "ready", "loop", "estep", "mstep",
                    \*   "update_alpha", "newton", "backoff", "return",
                    \*   "check", "done", "error"
    err,            \* the exception that ended the run, "" when none
    K, D, V, data,  \* self._K, self._D, self._V, self._data
    alpha, beta, gamma, phi_table,
    requested,      \* learning: the iteration argument as passed
    iteration,      \* learning: the cap of the outer loop
    i,              \* learning: outer iterations completed (calls to inference)
    old_likelihood, new_likelihood,
    converged,      \* learning left its loop through the break of line 220
    todo,           \* inference: documents of the pass not yet visited
    doc,            \* inference: the document visited last, 0 before the first
    gamma_iters,    \* update_phi: inner iterations run for each document of the pass
    decay, alpha_iteration, alpha_update, direction,
    step_size, singular_hessian,    \* the candidate last evaluated (184-188)
    \* history, written by the steps and read by no guard
    trajectory,     \* ELBO values returned by inference so far
    degenerate,     \* line 219 was evaluated with old_likelihood = 0
    alpha_start, beta_start,    \* alpha and beta when the pass began
    alpha_entry     \* alpha when update_alpha was entered

vars == <<pc, err, K, D, V, data, alpha, beta, gamma, phi_table, requested,
          iteration, i, old_likelihood, new_likelihood, converged, todo, doc,
          gamma_iters,
          decay, alpha_iteration, alpha_update, direction, step_size,
          singular_hessian, trajectory, degenerate, alpha_start, beta_start,
          alpha_entry>>

model_state == <<K, D, V, data, alpha, beta, gamma, phi_table>>
learning_state == <<requested, iteration, i, old_likelihood, new_likelihood, converged,
                    trajectory, degenerate>>
pass_state == <<todo, doc, gamma_iters, alpha_start, beta_start>>
newton_state == <<decay, alpha_iteration, alpha_update, direction, step_size,
                  singular_hessian, alpha_entry>>

Topics == 1..K
Docs == 1..D
Terms == 0..(V - 1)

\* ----------------------------------------------------------------- inputs
\* a document: term identifier -> positive occurrence count
NoTerms == <<>>
Corpora ==
    { <<>>,                                         \* no document
      <<NoTerms>>,                                  \* only an empty document
      <<(0 :> 2)>>,                                 \* one term, twice
      <<(0 :> 1), NoTerms>>,                        \* an empty document among others
      <<(0 :> 1) @@ (1 :> 1), (0 :> 2)>>,           \* a shared term
      <<(0 :> 1) @@ (1 :> 1), (0 :> 2), (1 :> 1)>>, \* three documents
      <<(1 :> 1)>>,                                 \* V = 1, term 1 referenced
      <<(0 :> 1), (2 :> 1)>> }                      \* V = 2, term 2 referenced

Init ==
    /\ pc = "new" /\ err = ""
    /\ K = 0 /\ D = 0 /\ V = 0 /\ data = <<>>
    /\ alpha = <<>> /\ beta = <<>> /\ gamma = <<>> /\ phi_table = <<>>
    /\ requested = 0 /\ iteration = 0 /\ i = 0 /\ old_likelihood = 0 /\ new_likelihood = 0
    /\ converged = FALSE
    /\ todo = {} /\ doc = 0 /\ gamma_iters = <<>>
    /\ decay = 0 /\ alpha_iteration = 0 /\ alpha_update = <<>>
    /\ direction = <<>> /\ step_size = <<>> /\ singular_hessian = FALSE
    /\ trajectory = <<>> /\ degenerate = FALSE
    /\ alpha_start = <<>> /\ beta_start = <<>> /\ alpha_entry = <<>>

\* ------------------------------------------------------------ _initialize
\* FreqDist.N(): total number of word occurrences of a document
N(bag) == Sum(bag)

\* lines 67-70: the distinct tokens of the corpus
Vocab(d) == UNION {DOMAIN d[x] : x \in DOMAIN d}

\* line 56: numpy.random.random((1, K)) / K, each entry in (0, 1/K)
AlphaInit(k) == [1..k -> {X \in 1..Unit : X * k < Unit}]

\* line 79: numpy.log(1.0/V + random((V, K))), random entries in [0, 1);
\* the two draws modelled put the lowest and the highest value on
\* alternating cells
BetaInit(v, k) ==
    LET lo == log(CeilDiv(Unit, v))
        hi == log((Unit \div v) + Unit - 1)
    IN  {[t \in 0..(v - 1) |-> [c \in 1..k |->
            IF (t + c + s) % 2 = 0 THEN lo ELSE hi]] : s \in 0..1}

\* line 76: numpy.tile(alpha + 1.0*V/K, (D, 1))
GammaInit(a, v, k, d) == [x \in 1..d |-> [c \in 1..k |-> a[c] + (v * Unit) \div k]]

Raise(e) == pc' = "error" /\ err' = e

Initialize(d, num_topics) ==
    /\ pc = "new"
    /\ K' = num_topics
    /\ UNCHANGED <<phi_table, learning_state, pass_state, newton_state>>
    /\ IF num_topics < 0
       THEN \* line 56: negative dimensions are not allowed
            /\ Raise("ValueError")
            /\ UNCHANGED <<D, V, data, alpha, beta, gamma>>
       ELSE /\ data' = d
            /\ D' = Len(d)
            /\ V' = Cardinality(Vocab(d))
            /\ IF num_topics = 0
               THEN \* line 76: 1.0*V/K
                    /\ Raise("ZeroDivisionError")
                    /\ alpha' = <<>>
                    /\ UNCHANGED <<beta, gamma>>
               ELSE /\ \E a \in AlphaInit(num_topics) :
                        /\ alpha' = a
                        /\ gamma' = GammaInit(a, V', num_topics, D')
                    /\ IF V' = 0
                       THEN \* line 79: 1.0/V
                            /\ Raise("ZeroDivisionError")
                            /\ UNCHANGED beta
                       ELSE /\ \E b \in BetaInit(V', num_topics) : beta' = b
                            /\ pc' = "ready"
                            /\ UNCHANGED err

\* --------------------------------------------------------------- learning
\* lines 210-213
Cap(n) == IF n <= 0 THEN maximum_iteration ELSE n

Learning(n) ==
    /\ pc = "ready"
    /\ requested' = n
    /\ iteration' = Cap(n)
    /\ old_likelihood' = 0
    /\ i' = 0
    /\ pc' = "loop"
    /\ UNCHANGED <<err, model_state, new_likelihood, converged, trajectory,
                   degenerate, pass_state, newton_state>>

\* line 215 exhausted: "learning finished..."
LearningFinished ==
    /\ pc = "loop"
    /\ i >= iteration
    /\ pc' = "done"
    /\ UNCHANGED <<err, model_state, learning_state, pass_state, newton_state>>

\* -------------------------------------------------------------- inference
\* lines 108-120 run inside the loop over the documents
PassCompleteEarly(remaining) == TRUE

\* line 97: the loop over the documents is over, nothing remains to visit
PassComplete(remaining) == remaining = {}

\* lines 83-94 (line 216 calls inference)
InferenceBegin ==
    /\ pc = "loop"
    /\ i < iteration
    /\ phi_table' = [t \in Terms |-> [k \in Topics |-> 0]]
    /\ todo' = Docs
    /\ doc' = 0
    /\ gamma_iters' = [d \in Docs |-> 0]
    /\ alpha_start' = alpha
    /\ beta_start' = beta
    /\ pc' = IF PassComplete(Docs) THEN "mstep" ELSE "estep"
    /\ UNCHANGED <<err, K, D, V, data, alpha, beta, gamma, learning_state,
                   newton_state>>

\* ------------------------------------------------------------- update_phi
\* lines 133-140 for one occurring term t with count c: the count-weighted
\* exp(phi_contribution) row.  beta[t,:] + psi(gamma) is normalised over the
\* topics by log-sum-exp (a softmax, computed relative to the smallest
\* entry), and adding log(c) before exponentiating multiplies by c.
PhiRow(b_t, g, c) ==
    LET u == [k \in DOMAIN g |-> b_t[k] + psi(g[k])]
        lowest == Min({u[k] : k \in DOMAIN g})
        w == [k \in DOMAIN g |-> Pow(2, u[k] - lowest)]
    IN  [k \in DOMAIN g |-> CeilDiv(c * Unit * w[k], Sum(w))]

\* lines 129-140: exp(phi_contribution), one row per occurring term
PhiContribution(b, bag, g) == [t \in DOMAIN bag |-> PhiRow(b[t], g, bag[t])]

\* line 142 without the prior: the sum of the weights alone
GammaUpdateNoPrior(a, phi) ==
    [k \in DOMAIN a |-> SumOver([t \in DOMAIN phi |-> phi[t][k]], DOMAIN phi)]

\* line 142
GammaUpdate(a, phi) ==
    [k \in DOMAIN a |-> a[k] + SumOver([t \in DOMAIN phi |-> phi[t][k]], DOMAIN phi)]

\* lines 143, 145 and 201, 204: numpy.mean(abs(x - y)) <= 1 / inv
MeanChangeWithin(x, y, inv) ==
    SumOver([k \in DOMAIN x |-> Abs(x[k] - y[k])], DOMAIN x) * inv
        <= Cardinality(DOMAIN x) * Unit

\* lines 128-146: the loop over gamma_iteration, entered with n iterations
\* done; yields the final gamma row, the final exp(phi_contribution) and
\* the number of iterations run
RECURSIVE GammaLoop(_, _, _, _, _)
GammaLoop(a, b, bag, g, n) ==
    LET phi == PhiContribution(b, bag, g)
        gamma_update == GammaUpdate(a, phi)
    IN  IF MeanChangeWithin(gamma_update, g, gamma_converge_threshold_Inv)
           \/ n + 1 >= gamma_maximum_iteration
        THEN [gamma |-> gamma_update, phi |-> phi, iters |-> n + 1]
        ELSE GammaLoop(a, b, bag, gamma_update, n + 1)

update_phi(a, b, bag, g) == GammaLoop(a, b, bag, g, 0)

\* line 151 with = for +=
AccumulatePhiOverwrite(table, phi) ==
    [t \in DOMAIN table |-> IF t \in DOMAIN phi THEN phi[t] ELSE table[t]]

\* line 151: self._phi_table[[term_ids], :] += numpy.exp(phi_contribution)
AccumulatePhi(table, phi) ==
    [t \in DOMAIN table |->
        IF t \in DOMAIN phi
        THEN [k \in DOMAIN table[t] |-> table[t][k] + phi[t][k]]
        ELSE table[t]]

\* line 103: alpha + 1.0 * total_word_count / K
GammaStart(a, total_word_count) ==
    [k \in DOMAIN a |-> a[k] + (total_word_count * Unit) \div Cardinality(DOMAIN a)]

\* lines 133, 151: every term identifier indexes a row of beta
IndexesBeta(bag, v) == \A t \in DOMAIN bag : t < v

\* lines 97-106, one document of the pass; the order of data.keys() is
\* not fixed by the code
EStepDoc(d) ==
    /\ pc = "estep"
    /\ d \in todo
    /\ doc' = d
    /\ LET g0 == GammaStart(alpha, N(data[d])) IN
       IF IndexesBeta(data[d], V)
       THEN LET r == update_phi(alpha, beta, data[d], g0) IN
            /\ gamma' = [gamma EXCEPT ![d] = r.gamma]
            /\ phi_table' = AccumulatePhi(phi_table, r.phi)
            /\ gamma_iters' = [gamma_iters EXCEPT ![d] = r.iters]
            /\ todo' = todo \ {d}
            /\ pc' = IF PassComplete(todo') THEN "mstep" ELSE "estep"
            /\ UNCHANGED err
       ELSE \* line 133: IndexError
            /\ gamma' = [gamma EXCEPT ![d] = g0]
            /\ Raise("IndexError")
            /\ UNCHANGED <<phi_table, gamma_iters, todo>>
    /\ UNCHANGED <<K, D, V, data, alpha, beta, learning_state, alpha_start,
                   beta_start, newton_state>>

\* line 114, 116: log(phi_table / column sums)
MStepBeta(table) ==
    [t \in DOMAIN table |-> [k \in DOMAIN table[t] |->
        log(CeilDiv(table[t][k] * Unit,
                    SumOver([x \in DOMAIN table |-> table[x][k]], DOMAIN table)))]]

\* lines 108-116: sufficient statistics and the new beta
MStep ==
    /\ pc = "mstep"
    /\ beta' = MStepBeta(phi_table)
    /\ doc' = 0
    /\ pc' = "update_alpha"
    /\ UNCHANGED <<err, K, D, V, data, alpha, gamma, phi_table, learning_state,
                   todo, gamma_iters, alpha_start, beta_start, newton_state>>

\* ----------------------------------------------------------- update_alpha
\* lines 167-178 yield (alpha_gradient - c) / alpha_hessian.  For a given
\* alpha this is an invertible linear image of the sufficient statistics,
\* so any vector is the direction of some statistics passed in.
Directions == [Topics -> (-MaxStep)..MaxStep]

\* lines 161-165
UpdateAlphaBegin ==
    /\ pc = "update_alpha"
    /\ alpha_update' = alpha
    /\ decay' = 0
    /\ alpha_iteration' = 0
    /\ alpha_entry' = alpha
    /\ pc' = "newton"
    /\ UNCHANGED <<err, model_state, learning_state, pass_state, direction,
                   step_size, singular_hessian>>

\* lines 166-178: one more Newton iteration
NewtonIteration ==
    /\ pc = "newton"
    /\ alpha_iteration < alpha_maximum_iteration
    /\ \E dir \in Directions : direction' = dir
    /\ step_size' = <<>>
    /\ singular_hessian' = FALSE
    /\ pc' = "backoff"
    /\ UNCHANGED <<err, model_state, learning_state, pass_state, decay,
                   alpha_iteration, alpha_update, alpha_entry>>

\* line 166 exhausted or line 205, then line 207: update_alpha returns and
\* its locals are gone
UpdateAlphaReturn ==
    /\ \/ pc = "return"
       \/ pc = "newton" /\ alpha_iteration >= alpha_maximum_iteration
    /\ pc' = "check"
    /\ decay' = 0 /\ alpha_iteration' = 0 /\ alpha_update' = <<>>
    /\ direction' = <<>> /\ step_size' = <<>> /\ singular_hessian' = FALSE
    /\ UNCHANGED <<err, model_state, learning_state, pass_state, alpha_entry>>

\* line 184: power(decay_factor, decay) * (alpha_gradient - c) / alpha_hessian
StepSize(dir, dec) ==
    [k \in DOMAIN dir |-> TruncDiv(Pow(DecayNum, dec) * dir[k], Pow(DecayDen, dec))]

\* line 187: numpy.any(self._alpha >= step_size)
SingularHessian(a, step) == \E k \in DOMAIN a : a[k] >= step[k]

\* line 190 outside its else: the candidate is stored even when rejected
CandidateAlways(a, upd, step) == [k \in DOMAIN a |-> a[k] - step[k]]

\* lines 187-190: alpha_update after the candidate is evaluated
Candidate(a, upd, step) ==
    IF SingularHessian(a, step) THEN upd ELSE [k \in DOMAIN a |-> a[k] - step[k]]

\* line 194 off by one
DecayExhaustedLate(dec) == dec > alpha_maximum_decay + 1

\* line 194
DecayExhausted(dec) == dec > alpha_maximum_decay

\* lines 201-205, after the backoff loop is left with alpha_update = upd
NewtonEnd(upd) ==
    /\ alpha' = upd
    /\ alpha_iteration' = alpha_iteration + 1
    /\ pc' = IF MeanChangeWithin(upd, alpha, alpha_converge_threshold_Inv)
             THEN "return" ELSE "newton"

\* lines 184-193, the candidate is rejected and the loop goes round
BackoffRetry ==
    /\ pc = "backoff"
    /\ LET step == StepSize(direction, decay) IN
       /\ SingularHessian(alpha, step)
       /\ ~DecayExhausted(decay + 1)
       /\ step_size' = step
       /\ singular_hessian' = TRUE
       /\ alpha_update' = Candidate(alpha, alpha_update, step)
       /\ decay' = decay + 1
    /\ UNCHANGED <<pc, err, model_state, learning_state, pass_state,
                   alpha_iteration, direction, alpha_entry>>

\* lines 184-195 and 201-205, the candidate is rejected and decay runs out
BackoffExhaust ==
    /\ pc = "backoff"
    /\ LET step == StepSize(direction, decay) IN
       /\ SingularHessian(alpha, step)
       /\ DecayExhausted(decay + 1)
       /\ step_size' = step
       /\ singular_hessian' = TRUE
       /\ alpha_update' = Candidate(alpha, alpha_update, step)
       /\ decay' = decay + 1
       /\ NewtonEnd(alpha_update')
    /\ UNCHANGED <<err, K, D, V, data, beta, gamma, phi_table, learning_state,
                   pass_state, direction, alpha_entry>>

\* lines 184-190, 197 and 201-205, the candidate is accepted
BackoffAccept ==
    /\ pc = "backoff"
    /\ LET step == StepSize(direction, decay) IN
       /\ ~SingularHessian(alpha, step)
       /\ step_size' = step
       /\ singular_hessian' = FALSE
       /\ alpha_update' = Candidate(alpha, alpha_update, step)
       /\ NewtonEnd(alpha_update')
    /\ UNCHANGED <<err, K, D, V, data, beta, gamma, phi_table, learning_state,
                   pass_state, decay, direction, alpha_entry>>

\* ------------------------------------------------- learning, lines 216-222
\* line 219: abs((new - old) / old) < converge_threshold; dividing by a zero
\* old_likelihood gives numpy's inf or nan, and neither is below anything
RelativeChangeBelow(new, old) ==
    IF old = 0 THEN FALSE
    ELSE Abs(new - old) * converge_threshold_Inv < Abs(old)

\* line 222 missing: old_likelihood keeps its value
NextOldKept(new, old) == old

\* line 222
NextOld(new, old) == new

\* lines 118, 122: the ELBO inference returns, a sum of gammaln expressions
Likelihoods == (-MaxLikelihood)..0

\* lines 216-222: inference has returned likelihood
ConvergenceCheck ==
    /\ pc = "check"
    /\ i' = i + 1
    /\ \E likelihood \in Likelihoods :
        /\ new_likelihood' = likelihood
        /\ trajectory' = Append(trajectory, likelihood)
        /\ degenerate' = (degenerate \/ old_likelihood = 0)
        /\ IF RelativeChangeBelow(likelihood, old_likelihood)
           THEN /\ converged' = TRUE
                /\ pc' = "done"
                /\ UNCHANGED old_likelihood
           ELSE /\ old_likelihood' = NextOld(likelihood, old_likelihood)
                /\ pc' = "loop"
                /\ UNCHANGED converged
    /\ todo' = {} /\ doc' = 0 /\ gamma_iters' = <<>>
    /\ alpha_start' = <<>> /\ beta_start' = <<>> /\ alpha_entry' = <<>>
    /\ UNCHANGED <<err, model_state, requested, iteration, decay,
                   alpha_iteration, alpha_update, direction, step_size,
                   singular_hessian>>

\* ---------------------------------------------------------- specification
\* the steps of a call of update_alpha
UpdateAlpha ==
    \/ UpdateAlphaBegin
    \/ NewtonIteration
    \/ BackoffRetry
    \/ BackoffExhaust
    \/ BackoffAccept
    \/ UpdateAlphaReturn

\* the steps that take no input
Run ==
    \/ InferenceBegin
    \/ \E d \in Docs : EStepDoc(d)
    \/ MStep
    \/ UpdateAlpha
    \/ ConvergenceCheck
    \/ LearningFinished

TopicCounts == {-1, 0, 1, 2}

Next ==
    \/ \E d \in Corpora, num_topics \in TopicCounts : Initialize(d, num_topics)
    \/ \E n \in 0..MaxIterationArg : Learning(n)
    \/ Run

Spec == Init /\ [][Next]_vars

\* a call of update_alpha runs on: its next step is taken
FairSpec == Spec /\ WF_vars(UpdateAlpha)

\* longer runs of learning, on one topic
LearnCorpora == { <<(0 :> 2)>>, <<(0 :> 1), NoTerms>> }

NextLearn ==
    \/ \E d \in LearnCorpora : Initialize(d, 1)
    \/ \E n \in 0..MaxLearnArg : Learning(n)
    \/ Run

LearnSpec == Init /\ [][NextLearn]_vars

\* ================================================================= claims
Positive(a) == \A k \in DOMAIN a : a[k] > 0

InUpdateAlpha == pc \in {"newton", "backoff", "return"}

\* C1: alpha is strictly positive after every call of update_alpha that was
\* entered with alpha strictly positive, whatever the statistics passed in.
C1_AlphaStaysPositive ==
    (pc = "check" /\ Positive(alpha_entry)) => Positive(alpha)

\* the relative change |new - old| / |old| of the claim, below the threshold
ChangeBelowThreshold(new, old) ==
    old # 0 /\ Abs(new - old) * converge_threshold_Inv < Abs(old)

\* the n-th outer iteration meets the stopping criterion against the ELBO of
\* the iteration before it
MeetsCriterion(n) ==
    n >= 2 /\ ChangeBelowThreshold(trajectory[n], trajectory[n - 1])

\* C2: learning makes at most cap calls to inference, cap being the argument
\* when positive and maximum_iteration otherwise; it stops at the first
\* iteration whose relative ELBO change against the previous iteration is
\* below converge_threshold, and after exactly cap iterations otherwise.
C2_LearningStops ==
    pc \in {"loop", "estep", "mstep", "update_alpha", "newton", "backoff",
            "return", "check", "done"} =>
        /\ iteration = (IF requested > 0 THEN requested ELSE maximum_iteration)
        /\ i = Len(trajectory)
        /\ i <= iteration
        /\ pc \notin {"loop", "done"} => i < iteration
        /\ \A n \in 1..(i - 1) : ~MeetsCriterion(n)
        /\ pc = "done" => /\ converged <=> MeetsCriterion(i)
                          /\ ~converged => i = iteration
        /\ pc # "done" => \A n \in 1..i : ~MeetsCriterion(n)

C2_Witness ==
    pc = "done" /\ converged /\ i = 2 /\ iteration = 3 /\ requested = 3

\* C3: the convergence test is never evaluated with a previous ELBO of zero.
C3_NoComparisonAgainstZero == ~degenerate

\* C4: the Newton iteration in which decay exceeds alpha_maximum_decay
\* leaves alpha as it was when the iteration began and is the last one of
\* the call, which returns without an error.
C4_ExhaustedBackoffKeepsAlpha ==
    [][ /\ (pc = "backoff" /\ pc' = "backoff") => alpha' = alpha
        /\ decay' > alpha_maximum_decay =>
              (alpha' = alpha /\ pc' \in {"return", "check"} /\ err' = "")
      ]_vars

C4_Witness ==
    /\ pc = "return" /\ decay > alpha_maximum_decay
    /\ alpha_iteration = 2 /\ alpha # alpha_entry

\* C5: in every pass, beta is replaced and alpha is updated only after the
\* E-step of every document, and every E-step of the pass reads the alpha
\* and beta the pass began with.
C5_Barrier ==
    /\ pc \in {"estep", "mstep"} => (alpha = alpha_start /\ beta = beta_start)
    /\ pc \in {"mstep", "update_alpha", "newton", "backoff", "return", "check"} =>
          (todo = {} /\ \A d \in Docs : gamma_iters[d] >= 1)
    /\ pc = "update_alpha" => alpha = alpha_start

C5_Witness ==
    pc = "newton" /\ D = 3 /\ beta # beta_start /\ alpha # alpha_start

\* the E-step of document d, computed from the values the pass began with
EStepOf(d) ==
    update_phi(alpha_start, beta_start, data[d],
               GammaStart(alpha_start, N(data[d])))

\* the documents of the pass that were visited and contain term t
VisitedWith(t) == {d \in Docs \ todo : t \in DOMAIN data[d]}

\* C6: whatever the order in which the documents of a pass are visited,
\* gamma row d is the E-step of document d from the alpha and beta the pass
\* began with, and phi-table row t is the sum of the contributions of the
\* visited documents that contain t.
C6_OrderIndependent ==
    pc \in {"estep", "mstep"} =>
        /\ \A d \in Docs \ todo : gamma[d] = EStepOf(d).gamma
        /\ \A t \in Terms : \A k \in Topics :
              phi_table[t][k] =
                  SumOver([d \in VisitedWith(t) |-> EStepOf(d).phi[t][k]],
                          VisitedWith(t))

C6_Witness ==
    /\ pc = "mstep" /\ D = 3 /\ doc = 1 /\ i = 1
    /\ Cardinality(VisitedWith(0)) = 2

Malformed ==
    \/ K <= 0
    \/ \E d \in DOMAIN data : \E t \in DOMAIN data[d] : t >= V

\* C8: with K <= 0, or with a document that references a term identifier
\* outside the V rows of beta, _initialize ends in an error and neither
\* inference nor update_phi ever runs.
C8_MalformedInputRejected ==
    (pc # "new" /\ Malformed) => (pc = "error" /\ iteration = 0 /\ doc = 0)

\* C9: a candidate step is rejected exactly when step_k >= alpha_k for some
\* topic k, and accepted exactly when step_k < alpha_k for every k.
C9_RejectedIffStepReachesAlpha ==
    [][ pc = "backoff" =>
          (singular_hessian' <=> \E k \in Topics : step_size'[k] >= alpha[k])
      ]_vars

\* C10: within a call of update_alpha decay starts at 0, never decreases
\* and never exceeds alpha_maximum_decay + 1, at most
\* alpha_maximum_iteration Newton iterations run, and the call returns.
C10_UpdateAlphaTerminates ==
    /\ [](InUpdateAlpha =>
            /\ decay \in 0..(alpha_maximum_decay + 1)
            /\ alpha_iteration \in 0..alpha_maximum_iteration
            /\ pc = "backoff" => /\ decay <= alpha_maximum_decay
                                 /\ alpha_iteration < alpha_maximum_iteration)
    /\ [][ /\ (pc = "update_alpha") => decay' = 0
           /\ (InUpdateAlpha /\ pc' \in {"newton", "backoff", "return"}) =>
                 (decay' >= decay /\ decay' <= decay + 1)
         ]_vars
    /\ (pc = "update_alpha" ~> pc = "check")

C10_Witness ==
    /\ pc = "backoff" /\ alpha_iteration = 1 /\ decay >= 1 /\ step_size = <<>>

====
